---- MODULE Spec2Model ----
(***************************************************************************)
(* polybar-internet-speed (src/src/main.rs): a status-bar helper that      *)
(* prints the cached or freshly measured internet speed.                   *)
(*                                                                         *)
(* The model follows one process per run through main(), one action per    *)
(* system call or decision of main.rs, over a shared cache file, a wall    *)
(* clock and the external fast tool.  Text (the tool's JSON, the cache's *)
(* TOML, the status line) is modelled at token level: a document is a      *)
(* sequence of key/value members whose numbers are decimal digit strings,  *)
(* so that encoding and decoding are computed, not assumed.                *)
(*                                                                         *)
(* Records list their fields in the order in which the field names first   *)
(* occur in this module, the order TLC keeps them in.                      *)
(***************************************************************************)
EXTENDS Integers, Sequences, FiniteSets, TLC

(***************************************************************************)
(* Program constants                                                       *)
(***************************************************************************)
Threshold == 86400
BUFFER_FILE_PATH == ".polybar-internet-speed.toml"

(***************************************************************************)
(* Bounds of the model                                                     *)
(***************************************************************************)
\* Clock resolution: ticks per second (the file system and the clock are
\* finer than the whole seconds as_secs keeps).
TicksPerSec == 2
\* How many times the clock may advance in one behaviour.
MaxTicks == 2
\* How many runs of the program one behaviour may start.
MaxRuns == 2

Procs == {"a", "b"}
\* Runs are sequential in Spec: one process at a time is ever started.
SeqProcs == {"a"}

(***************************************************************************)
(* Result values: Rust's Result<T, String>, plus a panic outcome.          *)
(* val is a sequence holding the value (empty when there is none), err     *)
(* the error message as a tuple of strings.                                *)
(***************************************************************************)
Ok(v) == [ok |-> TRUE, panic |-> FALSE, val |-> <<v>>, err |-> <<>>]
Err(e) == [ok |-> FALSE, panic |-> FALSE, val |-> <<>>, err |-> e]
Panic(e) == [ok |-> FALSE, panic |-> TRUE, val |-> <<>>, err |-> e]

(***************************************************************************)
(* u32: TLC's integers are 32-bit signed, so a u32 is kept as two 16-bit   *)
(* limbs, value = hi * 2^16 + lo, and its decimal text is computed by long *)
(* division (Display for u32) and long multiplication (integer parsing).   *)
(***************************************************************************)
Limb == 2^16
U32(n) == [hi |-> n \div Limb, lo |-> n % Limb]
U32Max == [hi |-> Limb - 1, lo |-> Limb - 1]

\* n <= k and n >= k for a small k
LeSmall(n, k) == n.hi = 0 /\ n.lo <= k
GeSmall(n, k) == n.hi > 0 \/ n.lo >= k

DivTen(n) ==
    LET t == (n.hi % 10) * Limb + n.lo
    IN  [q |-> [hi |-> n.hi \div 10, lo |-> t \div 10], r |-> t % 10]

RECURSIVE ToDigits(_)
ToDigits(n) ==
    IF LeSmall(n, 9) THEN <<n.lo>> ELSE Append(ToDigits(DivTen(n).q), DivTen(n).r)

\* acc * 10 + d, with over set once the value has left the u32 range
MulAdd(acc, d) ==
    LET l == acc.lo * 10 + d
        h == acc.hi * 10 + l \div Limb
    IN  IF acc.over \/ h >= Limb THEN [hi |-> 0, lo |-> 0, over |-> TRUE]
        ELSE [hi |-> h, lo |-> l % Limb, over |-> FALSE]

RECURSIVE FromDigits(_)
FromDigits(d) ==
    IF Len(d) = 0 THEN [hi |-> 0, lo |-> 0, over |-> FALSE]
    ELSE MulAdd(FromDigits(SubSeq(d, 1, Len(d) - 1)), d[Len(d)])

\* A number token: its type as written ("int", "float", "string"), sign and digits.
Num(type, neg, digits) == [type |-> type, neg |-> neg, digits |-> digits]
IntTok(n) == Num("int", FALSE, ToDigits(n))
Member(k, v) == [val |-> v, key |-> k]

\* A text document: valid UTF-8 or not, well-formed or not, and its members in order.
Doc(ms) == [utf8 |-> TRUE, syntax |-> TRUE, members |-> ms]
GarbageDoc == [utf8 |-> TRUE, syntax |-> FALSE, members |-> <<>>]
NotUtf8Doc == [utf8 |-> FALSE, syntax |-> FALSE, members |-> <<>>]
EmptyDoc == Doc(<<>>)

\* struct Fast
Fast(d, l) == [downloadSpeed |-> d, latency |-> l]

Keys(doc) == {doc.members[i].key : i \in 1..Len(doc.members)}
Indices(doc, k) == {i \in 1..Len(doc.members) : doc.members[i].key = k}
Value(doc, k) == doc.members[CHOOSE i \in Indices(doc, k) : TRUE].val
LeadingZero(v) == Len(v.digits) > 1 /\ v.digits[1] = 0
Parsed(v) == [hi |-> FromDigits(v.digits).hi, lo |-> FromDigits(v.digits).lo]

\* Deserialize for u32: an integer token in 0..=u32::MAX (-0 is 0).
IsU32(v) ==
    /\ v.type = "int"
    /\ ~FromDigits(v.digits).over
    /\ v.neg => Parsed(v) = U32(0)

\* #[derive(Deserialize)] for Fast over a parsed document: unknown keys are
\* ignored, a repeated or missing field or a value that is not a u32 is an error.
DeserializeFast(doc) ==
    IF \E k \in {"downloadSpeed", "latency"} : Cardinality(Indices(doc, k)) > 1
      THEN Err(<<"duplicate field">>)
    ELSE IF "downloadSpeed" \notin Keys(doc)
      THEN Err(<<"missing field downloadSpeed">>)
    ELSE IF ~IsU32(Value(doc, "downloadSpeed"))
      THEN Err(<<"invalid value for downloadSpeed">>)
    ELSE IF "latency" \notin Keys(doc)
      THEN Err(<<"missing field latency">>)
    ELSE IF ~IsU32(Value(doc, "latency"))
      THEN Err(<<"invalid value for latency">>)
    ELSE Ok(Fast(Parsed(Value(doc, "downloadSpeed")), Parsed(Value(doc, "latency"))))

\* serde_json::from_str::<Fast>: the text must be a JSON object; numbers have
\* no leading zeros, and a negative number is never a u32 (-0 is a float).
serde_json_from_str(doc) ==
    IF ~doc.syntax THEN Err(<<"expected value">>)
    ELSE IF \E i \in 1..Len(doc.members) :
                doc.members[i].val.type # "string" /\ LeadingZero(doc.members[i].val)
      THEN Err(<<"invalid number">>)
    ELSE IF \E k \in {"downloadSpeed", "latency"} :
                \E i \in Indices(doc, k) : doc.members[i].val.neg
      THEN Err(<<"invalid value: negative integer">>)
    ELSE DeserializeFast(doc)

\* Mutant: the fields are written under snake_case keys.
toml_to_string_renamed(info) ==
    Ok(Doc(<<Member("download_speed", IntTok(info.downloadSpeed)),
             Member("latency", IntTok(info.latency))>>))

\* toml::to_string(&Fast): one key = integer line per field, in declaration order.
toml_to_string(info) ==
    Ok(Doc(<<Member("downloadSpeed", IntTok(info.downloadSpeed)),
             Member("latency", IntTok(info.latency))>>))

\* toml::from_str::<Fast>: the text must be a TOML table; a key defined twice
\* or an integer with a leading zero is a syntax error.
toml_from_str(doc) ==
    IF ~doc.syntax THEN Err(<<"TOML parse error">>)
    ELSE IF \E i, j \in 1..Len(doc.members) : i # j /\ doc.members[i].key = doc.members[j].key
      THEN Err(<<"duplicate key">>)
    ELSE IF \E i \in 1..Len(doc.members) :
                doc.members[i].val.type # "string" /\ LeadingZero(doc.members[i].val)
      THEN Err(<<"invalid number">>)
    ELSE DeserializeFast(doc)

(***************************************************************************)
(* The cache file: what stat() reports for the path, whether the platform  *)
(* gives a modification time, the time itself (in ticks), the permissions  *)
(* and the content.                                                        *)
(***************************************************************************)
File(stat, mtimeOk, mtime, readable, writable, content) ==
    [stat |-> stat, mtimeOk |-> mtimeOk, mtime |-> mtime,
     readable |-> readable, writable |-> writable, content |-> content]

\* Mutant: the sign of the duration is dropped.
to_std_abs(d) == Ok(IF d < 0 THEN 0 - d ELSE d)

\* signed_duration_since(..).to_std(): a negative duration is an error.
to_std(d) == IF d < 0 THEN Err(<<"source duration value is out of range">>) ELSE Ok(d)

\* Mutant: a started second counts as a whole one.
as_secs_ceil(d) == (d + TicksPerSec - 1) \div TicksPerSec

\* Duration::as_secs: whole seconds, the sub-second part dropped.
as_secs(d) == d \div TicksPerSec

get_seconds_since_file_modified(f, ltime) ==
    IF f.stat \in {"absent", "denied"}
      THEN Err(<<"Failed to get metadata for file">>)
    ELSE IF f.stat # "file"
      THEN Err(<<"is not a file!">>)
    ELSE IF ~f.mtimeOk
      THEN Err(<<"Failed to get file modified time for file">>)
    ELSE IF ~to_std(ltime - f.mtime).ok
      THEN Err(<<"Failed to get elapsed time">>)
    ELSE Ok(as_secs(to_std(ltime - f.mtime).val[1]))

\* Mutant: a missing XDG_CACHE_HOME falls back to a fixed directory.
get_buffered_filename_tmp(x) ==
    IF x = "unset" THEN Ok(<<"/tmp", BUFFER_FILE_PATH>>)
    ELSE IF x = "notunicode"
      THEN Err(<<"Failed to get XDG_CACHE_HOME", "environment variable was not valid unicode">>)
    ELSE Ok(<<x, BUFFER_FILE_PATH>>)

\* env::var("XDG_CACHE_HOME") joined with BUFFER_FILE_PATH.  A String is
\* always valid Unicode, so path.to_str() cannot fail once env::var succeeded.
get_buffered_filename(x) ==
    IF x = "unset" THEN Err(<<"Failed to get XDG_CACHE_HOME", "environment variable not found">>)
    ELSE IF x = "notunicode"
      THEN Err(<<"Failed to get XDG_CACHE_HOME", "environment variable was not valid unicode">>)
    ELSE Ok(<<x, BUFFER_FILE_PATH>>)

\* Mutant: the buffered file is used for two days.
Classify_two_days(age) ==
    IF ~age.ok THEN "Absent"
    ELSE IF age.val[1] >= 0 /\ age.val[1] <= 2 * Threshold THEN "Fresh"
    ELSE "Stale"

\* Mutant: the range of the Fresh arm excludes its upper end.
Classify_exclusive(age) ==
    IF ~age.ok THEN "Absent"
    ELSE IF age.val[1] >= 0 /\ age.val[1] < Threshold THEN "Fresh"
    ELSE "Stale"

\* The match on elapsed in main: 0..=86400 uses the buffered file.
Classify(age) ==
    IF ~age.ok THEN "Absent"
    ELSE IF age.val[1] >= 0 /\ age.val[1] <= Threshold THEN "Fresh"
    ELSE "Stale"

\* Outcome of Command::new("fast").arg("--json").output()
SpawnError == [kind |-> "spawn_error", success |-> FALSE, stdout |-> EmptyDoc, stderr |-> "No such file or directory"]
Exit(success, stdout, stderr) ==
    [kind |-> "exit", success |-> success, stdout |-> stdout, stderr |-> stderr]

\* Mutant: the exit status is not looked at.
get_internet_info_ignore_status(output) ==
    IF output.kind = "spawn_error" THEN Panic(<<"Failed to execute command", output.stderr>>)
    ELSE IF ~serde_json_from_str(output.stdout).ok
      THEN Err(<<"Failed to parse JSON">> \o serde_json_from_str(output.stdout).err)
    ELSE Ok(serde_json_from_str(output.stdout).val[1])

\* Mutant: output that does not decode yields the default Fast.
get_internet_info_default(output) ==
    IF output.kind = "spawn_error" THEN Panic(<<"Failed to execute command", output.stderr>>)
    ELSE IF ~output.success THEN Err(<<"Command failed", output.stderr>>)
    ELSE IF ~serde_json_from_str(output.stdout).ok THEN Ok(Fast(U32(0), U32(0)))
    ELSE Ok(serde_json_from_str(output.stdout).val[1])

get_internet_info(output) ==
    IF output.kind = "spawn_error" THEN Panic(<<"Failed to execute command", output.stderr>>)
    ELSE IF ~output.success THEN Err(<<"Command failed", output.stderr>>)
    ELSE IF ~serde_json_from_str(output.stdout).ok
      THEN Err(<<"Failed to parse JSON">> \o serde_json_from_str(output.stdout).err)
    ELSE Ok(serde_json_from_str(output.stdout).val[1])

\* fs::read_to_string followed by toml::from_str in get_buffered_internet_info.
read_to_string(f) ==
    IF f.stat # "file" \/ ~f.readable THEN Err(<<"Failed to read file", "os error">>)
    ELSE IF ~f.content.utf8 THEN Err(<<"Failed to read file", "stream did not contain valid UTF-8">>)
    ELSE Ok(f.content)

\* Mutant: a cache file that does not decode gives the zero Measurement.
get_buffered_internet_info_zero(x, f) ==
    IF ~get_buffered_filename(x).ok THEN Err(get_buffered_filename(x).err)
    ELSE IF ~read_to_string(f).ok THEN Err(read_to_string(f).err)
    ELSE IF ~toml_from_str(read_to_string(f).val[1]).ok THEN Ok(Fast(U32(0), U32(0)))
    ELSE Ok(toml_from_str(read_to_string(f).val[1]).val[1])

get_buffered_internet_info(x, f) ==
    IF ~get_buffered_filename(x).ok THEN Err(get_buffered_filename(x).err)
    ELSE IF ~read_to_string(f).ok THEN Err(read_to_string(f).err)
    ELSE IF ~toml_from_str(read_to_string(f).val[1]).ok
      THEN Err(toml_from_str(read_to_string(f).val[1]).err)
    ELSE Ok(toml_from_str(read_to_string(f).val[1]).val[1])

\* Mutant: the warning band stops one short of 150.
Icon_short_warning(latency) ==
    IF GeSmall(latency, 0) /\ LeSmall(latency, 50) THEN "F#3cb703"
    ELSE IF GeSmall(latency, 51) /\ LeSmall(latency, 149) THEN "F#f9dd04"
    ELSE "F#d60606"

\* The icon match of main and the println! of the status line.
Icon(latency) ==
    IF GeSmall(latency, 0) /\ LeSmall(latency, 50) THEN "F#3cb703"
    ELSE IF GeSmall(latency, 51) /\ LeSmall(latency, 150) THEN "F#f9dd04"
    ELSE "F#d60606"

StatusLine(info) ==
    [downloadSpeed |-> ToDigits(info.downloadSpeed), latency |-> ToDigits(info.latency),
     icon |-> Icon(info.latency)]

\* A line of /tmp/polybar-internet-speed.log
LogLine(level, msg, arg) == [level |-> level, msg |-> msg, arg |-> arg]

(***************************************************************************)
(* fs::write(file, toml) is File::create (open, create, truncate) followed *)
(* by write_all: two system calls, each of which may fail.                 *)
(***************************************************************************)
CanOpen(f) == f.writable /\ f.stat \in {"absent", "file"}

\* Mutant: the new content replaces the old one in a single step, so an
\* existing file keeps its content until the write.
Create_keep(f, t) ==
    IF f.stat = "file" THEN [f EXCEPT !.mtime = t]
    ELSE File("file", f.mtimeOk, t, TRUE, TRUE, EmptyDoc)

\* File::create: an existing file is truncated, a missing one is created.
Create(f, t) ==
    IF f.stat = "file" THEN [f EXCEPT !.content = EmptyDoc, !.mtime = t]
    ELSE File("file", f.mtimeOk, t, TRUE, TRUE, EmptyDoc)

\* write_all of the whole text.
WriteAll(f, t, text) == [f EXCEPT !.content = text, !.mtime = t]

\* What main logs when get_new_internet_info fails: the Stale arm logs the
\* error alone, the Err arm logs the freshness error and the fetch error.
FetchFailLog(br, e, e2) ==
    IF br = "Stale" THEN LogLine("ERROR", e2, <<>>)
    ELSE LogLine("ERROR", <<"File didn't exist: Error: ">> \o e \o <<". Tried to create it: Error: ">> \o e2, <<>>)

(***************************************************************************)
(* Inputs of the model                                                     *)
(***************************************************************************)
XdgValues == {"unset", "notunicode", "/home/user/.cache"}

\* The clock starts late enough for every initial file age to be in the past.
StartTime == TicksPerSec * (Threshold + 2)
\* Steps by which the clock advances: one tick, the threshold, one second more.
TickSteps == {1, TicksPerSec * Threshold, TicksPerSec * (Threshold + 1)}

\* Ages (in ticks) of the file found by the first run: just written, the last
\* tick that is still 86400 whole seconds, the first tick of 86401 seconds.
LastFreshAge == TicksPerSec * Threshold + (TicksPerSec - 1)
FirstStaleAge == TicksPerSec * (Threshold + 1)

CachedInfo == Fast(U32(330), U32(17))
CachedDoc == toml_to_string(CachedInfo).val[1]
MissingLatencyDoc == Doc(<<Member("downloadSpeed", IntTok(U32(330)))>>)

InitFiles ==
    { File("absent", TRUE, 0, FALSE, w, EmptyDoc) : w \in BOOLEAN }
    \cup { File("denied", TRUE, 0, FALSE, FALSE, EmptyDoc),
           File("dir", TRUE, StartTime, FALSE, FALSE, EmptyDoc),
           File("file", FALSE, 0, TRUE, TRUE, CachedDoc),
           File("file", TRUE, StartTime + 1, TRUE, TRUE, CachedDoc),
           File("file", TRUE, StartTime, FALSE, TRUE, CachedDoc),
           File("file", TRUE, StartTime - FirstStaleAge, TRUE, FALSE, CachedDoc) }
    \cup { File("file", TRUE, StartTime - a, TRUE, TRUE, CachedDoc) :
             a \in {0, LastFreshAge, FirstStaleAge} }
    \cup { File("file", TRUE, StartTime - LastFreshAge, TRUE, TRUE, d) :
             d \in {GarbageDoc, NotUtf8Doc, EmptyDoc, MissingLatencyDoc} }

ToolOutputs ==
    { SpawnError,
      Exit(FALSE, EmptyDoc, "network unreachable"),
      Exit(FALSE, Doc(<<Member("downloadSpeed", IntTok(U32(100))), Member("latency", IntTok(U32(120)))>>), ""),
      Exit(TRUE, Doc(<<Member("downloadSpeed", IntTok(U32(100))), Member("latency", IntTok(U32(120)))>>), ""),
      Exit(TRUE, Doc(<<Member("downloadSpeed", IntTok(U32(0))), Member("latency", IntTok(U32Max)),
                       Member("userIp", Num("string", FALSE, <<>>))>>), "warning"),
      Exit(TRUE, GarbageDoc, ""),
      Exit(TRUE, Doc(<<Member("downloadSpeed", IntTok(U32(100)))>>), ""),
      Exit(TRUE, Doc(<<Member("downloadSpeed", Num("float", FALSE, <<9, 9>>)), Member("latency", IntTok(U32(120)))>>), ""),
      Exit(TRUE, Doc(<<Member("downloadSpeed", Num("int", FALSE, <<4, 2, 9, 4, 9, 6, 7, 2, 9, 6>>)), Member("latency", IntTok(U32(120)))>>), ""),
      Exit(TRUE, Doc(<<Member("downloadSpeed", IntTok(U32(100))), Member("latency", Num("int", TRUE, <<1>>))>>), "") }

(***************************************************************************)
(* State                                                                   *)
(***************************************************************************)
VARIABLES
    now,         \* wall clock, in ticks
    nticks,      \* how many times the clock has advanced
    file,        \* the cache file
    runs,        \* runs started so far
    pc,          \* per process: where main is
    xdg,         \* per process: XDG_CACHE_HOME of the run
    fileAtStart, \* per process: the cache file as the run found it
    started,     \* per process: the time at which the run was started
    age,         \* per process: result of get_seconds_since_file_modified (at most one)
    branch,      \* per process: the arm of main's match that was taken
    output,      \* per process: outcomes of the invocations of the tool in this run
    fetched,     \* per process: info inside get_new_internet_info (at most one)
    ret,         \* per process: what get_new/get_buffered_internet_info returned
    info,        \* per process: main's info (at most one)
    reads,       \* per process: reads of the cache file's content in this run
    writes,      \* per process: fs::write calls on the cache file in this run
    log,         \* per process: lines appended to the log by this run
    stdout,      \* per process: lines printed by this run
    stored       \* history: the successful fetch whose write the cache file still holds (at most one)

vars == <<now, nticks, file, runs, pc, xdg, fileAtStart, started, age, branch, output,
          fetched, ret, info, reads, writes, log, stdout, stored>>

clockVars == <<now, nticks>>
localVars == <<xdg, fileAtStart, started, age, branch, output, fetched, ret, info, reads, writes, log, stdout>>

Terminal == {"Done", "Failed", "Panicked"}

Init ==
    /\ now = StartTime
    /\ nticks = 0
    /\ file \in InitFiles
    /\ runs = 0
    /\ pc = [p \in Procs |-> "Idle"]
    /\ xdg = [p \in Procs |-> "unset"]
    /\ fileAtStart = [p \in Procs |-> file]
    /\ started = [p \in Procs |-> StartTime]
    /\ age = [p \in Procs |-> <<>>]
    /\ branch = [p \in Procs |-> "None"]
    /\ output = [p \in Procs |-> <<>>]
    /\ fetched = [p \in Procs |-> <<>>]
    /\ ret = [p \in Procs |-> <<>>]
    /\ info = [p \in Procs |-> <<>>]
    /\ reads = [p \in Procs |-> 0]
    /\ writes = [p \in Procs |-> 0]
    /\ log = [p \in Procs |-> <<>>]
    /\ stdout = [p \in Procs |-> <<>>]
    /\ stored = <<>>

(***************************************************************************)
(* The arms of main's match: where main goes with the result r of          *)
(* get_buffered_internet_info (Fresh) or get_new_internet_info (Stale and  *)
(* Absent): on to the status line, or log the error and return.            *)
(***************************************************************************)
\* Mutant: a cache that cannot be loaded falls back to a fresh fetch.
FreshArm_fallback(r) == IF r.ok THEN "Render" ELSE "Fetch"
\* Mutant: the Stale arm tries the fetch again when it failed.
StaleArm_retry(r) == IF r.ok THEN "Render" ELSE "Fetch"
\* Mutant: the Absent arm goes on to the status line whatever the result.
AbsentArm_continue(r) == "Render"

FreshArm(r) == IF r.ok THEN "Render" ELSE "Failed"
StaleArm(r) == IF r.ok THEN "Render" ELSE "Failed"
AbsentArm(r) == IF r.ok THEN "Render" ELSE "Failed"
FetchArm(br, r) == IF br = "Stale" THEN StaleArm(r) ELSE AbsentArm(r)

\* main's match on get_buffered_filename.
PathArm(path) == IF path.ok THEN "CheckFreshness" ELSE "Failed"

\* Mutant: every arm fetches.
BranchPc_always_fetch(br) == "Fetch"

\* After the freshness check: the Fresh arm loads the cache, the others fetch.
BranchPc(br) == IF br = "Fresh" THEN "LoadCache" ELSE "Fetch"

BranchLog(br, a) ==
    IF br = "Fresh" THEN LogLine("INFO", <<"Using buffered file: elapse = ">>, a.val)
    ELSE IF br = "Stale" THEN LogLine("INFO", <<"Buffered file is out of date">>, <<>>)
    ELSE LogLine("INFO", <<"Buffered file doesn't exist">>, <<>>)

\* write_buffered_file, given the encoding and whether create and write_all succeeded.
write_buffered_file(toml, created, written) ==
    IF ~toml.ok THEN Err(<<"Failed to convert to TOML">> \o toml.err)
    ELSE IF ~created \/ ~written THEN Err(<<"Failed to write buffered file", "os error">>)
    ELSE Ok("unit")

\* Mutant: the result of write_buffered_file is dropped.
get_new_internet_info_keep(i, path, w) ==
    IF ~path.ok THEN Err(path.err)
    ELSE Ok(i)

\* The tail of get_new_internet_info: the fetched info i is returned only if
\* the path was found and the cache was written.
get_new_internet_info(i, path, w) ==
    IF ~path.ok THEN Err(path.err)
    ELSE IF ~w.ok THEN Err(w.err)
    ELSE Ok(i)

\* History: the info a successful fetch stored, the run that fetched it and
\* the time of its write.
Stored(i, run, at) == [info |-> i, run |-> run, at |-> at]

(***************************************************************************)
(* Actions                                                                 *)
(***************************************************************************)
\* The clock advances.
Tick(d) ==
    /\ nticks < MaxTicks
    /\ now' = now + d
    /\ nticks' = nticks + 1
    /\ UNCHANGED <<file, runs, pc, stored>>
    /\ UNCHANGED localVars

\* A new process is started with its environment x.
StartRun(p, x) ==
    /\ pc[p] \in {"Idle"} \cup Terminal
    /\ runs < MaxRuns
    /\ runs' = runs + 1
    /\ pc' = [pc EXCEPT ![p] = "InitLog"]
    /\ xdg' = [xdg EXCEPT ![p] = x]
    /\ fileAtStart' = [fileAtStart EXCEPT ![p] = file]
    /\ started' = [started EXCEPT ![p] = now]
    /\ age' = [age EXCEPT ![p] = <<>>]
    /\ branch' = [branch EXCEPT ![p] = "None"]
    /\ output' = [output EXCEPT ![p] = <<>>]
    /\ fetched' = [fetched EXCEPT ![p] = <<>>]
    /\ ret' = [ret EXCEPT ![p] = <<>>]
    /\ info' = [info EXCEPT ![p] = <<>>]
    /\ reads' = [reads EXCEPT ![p] = 0]
    /\ writes' = [writes EXCEPT ![p] = 0]
    /\ log' = [log EXCEPT ![p] = <<>>]
    /\ stdout' = [stdout EXCEPT ![p] = <<>>]
    /\ UNCHANGED <<file, now, nticks, stored>>

\* main: the log4rs set-up, three unwraps that panic when the log file
\* cannot be opened or the logger is already set.
InitLog(p, ok) ==
    /\ pc[p] = "InitLog"
    /\ pc' = [pc EXCEPT ![p] = IF ok THEN "GetPath" ELSE "Panicked"]
    /\ UNCHANGED <<file, runs, clockVars, stored>>
    /\ UNCHANGED localVars

\* main: get_buffered_filename, or log the error and return.
GetPath(p) ==
    /\ pc[p] = "GetPath"
    /\ LET path == get_buffered_filename(xdg[p]) IN
         /\ pc' = [pc EXCEPT ![p] = PathArm(path)]
         /\ log' = [log EXCEPT ![p] =
                      IF path.ok THEN @ ELSE Append(@, LogLine("ERROR", path.err, <<>>))]
    /\ UNCHANGED <<file, runs, clockVars, stored>>
    /\ UNCHANGED <<xdg, fileAtStart, started, age, branch, output, fetched, ret, info, reads, writes, stdout>>

\* main: get_seconds_since_file_modified and the match on its result.
CheckFreshness(p) ==
    /\ pc[p] = "CheckFreshness"
    /\ LET a == get_seconds_since_file_modified(file, now)
           br == Classify(a) IN
         /\ age' = [age EXCEPT ![p] = <<a>>]
         /\ branch' = [branch EXCEPT ![p] = br]
         /\ log' = [log EXCEPT ![p] = Append(@, BranchLog(br, a))]
         /\ pc' = [pc EXCEPT ![p] = BranchPc(br)]
    /\ UNCHANGED <<file, runs, clockVars, stored>>
    /\ UNCHANGED <<xdg, fileAtStart, started, output, fetched, ret, info, reads, writes, stdout>>

\* main, Fresh arm: get_buffered_internet_info reads and decodes the cache file.
LoadCache(p) ==
    /\ pc[p] = "LoadCache"
    /\ LET r == get_buffered_internet_info(xdg[p], file)
           parseFailed == read_to_string(file).ok /\ ~r.ok IN
         /\ ret' = [ret EXCEPT ![p] = <<r>>]
         /\ reads' = [reads EXCEPT ![p] = @ + 1]
         /\ info' = [info EXCEPT ![p] = IF r.ok THEN r.val ELSE @]
         /\ log' = [log EXCEPT ![p] =
                      IF r.ok THEN @
                      ELSE IF parseFailed
                        THEN @ \o <<LogLine("ERROR", <<"Failed to parse TOML">> \o r.err, <<>>),
                                    LogLine("ERROR", r.err, <<>>)>>
                      ELSE Append(@, LogLine("ERROR", r.err, <<>>))]
         /\ pc' = [pc EXCEPT ![p] = FreshArm(r)]
    /\ UNCHANGED <<file, runs, clockVars, stored>>
    /\ UNCHANGED <<xdg, fileAtStart, started, age, branch, output, fetched, writes, stdout>>

\* main, Stale and Absent arms: get_new_internet_info calls get_internet_info,
\* which runs the tool, waits for it to exit with the outcome o and decodes
\* its standard output.
Fetch(p, o) ==
    /\ pc[p] = "Fetch"
    /\ LET r == get_internet_info(o) IN
         /\ output' = [output EXCEPT ![p] = Append(@, o)]
         /\ IF r.panic
              THEN /\ pc' = [pc EXCEPT ![p] = "Panicked"]
                   /\ UNCHANGED <<fetched, ret, log>>
            ELSE IF r.ok
              THEN /\ fetched' = [fetched EXCEPT ![p] = r.val]
                   /\ log' = [log EXCEPT ![p] = Append(@, LogLine("INFO", <<"Command output: ">>, <<>>))]
                   /\ pc' = [pc EXCEPT ![p] = "Create"]
                   /\ UNCHANGED ret
            ELSE /\ ret' = [ret EXCEPT ![p] = <<Err(r.err)>>]
                 /\ log' = [log EXCEPT ![p] = Append(@, FetchFailLog(branch[p], age[p][1].err, r.err))]
                 /\ pc' = [pc EXCEPT ![p] = FetchArm(branch[p], Err(r.err))]
                 /\ UNCHANGED fetched
    /\ UNCHANGED <<file, runs, clockVars, stored>>
    /\ UNCHANGED <<xdg, fileAtStart, started, age, branch, info, reads, writes, stdout>>

\* get_new_internet_info: get_buffered_filename, then write_buffered_file up
\* to the File::create inside fs::write.
CreateFile(p) ==
    /\ pc[p] = "Create"
    /\ LET path == get_buffered_filename(xdg[p])
           toml == toml_to_string(fetched[p][1])
           open == path.ok /\ toml.ok
           created == open /\ CanOpen(file)
           r == get_new_internet_info(fetched[p][1], path, write_buffered_file(toml, created, TRUE)) IN
         /\ writes' = [writes EXCEPT ![p] = IF open THEN @ + 1 ELSE @]
         /\ file' = IF created THEN Create(file, now) ELSE file
         /\ stored' = IF created THEN <<>> ELSE stored
         /\ IF created
              THEN /\ pc' = [pc EXCEPT ![p] = "Write"]
                   /\ UNCHANGED <<ret, log>>
              ELSE /\ ret' = [ret EXCEPT ![p] = <<r>>]
                   /\ log' = [log EXCEPT ![p] =
                                IF r.ok THEN @ ELSE Append(@, FetchFailLog(branch[p], age[p][1].err, r.err))]
                   /\ pc' = [pc EXCEPT ![p] = FetchArm(branch[p], r)]
         /\ info' = [info EXCEPT ![p] = IF ~created /\ r.ok THEN r.val ELSE @]
    /\ UNCHANGED <<runs, clockVars>>
    /\ UNCHANGED <<xdg, fileAtStart, started, age, branch, output, fetched, reads, stdout>>

\* The write_all inside fs::write, which succeeds or fails (written), and the
\* return of get_new_internet_info to main.
WriteFile(p, written) ==
    /\ pc[p] = "Write"
    /\ LET path == get_buffered_filename(xdg[p])
           toml == toml_to_string(fetched[p][1])
           r == get_new_internet_info(fetched[p][1], path, write_buffered_file(toml, TRUE, written)) IN
         /\ file' = IF written THEN WriteAll(file, now, toml.val[1]) ELSE file
         /\ stored' = IF written THEN <<Stored(fetched[p][1], runs, now)>> ELSE stored
         /\ ret' = [ret EXCEPT ![p] = <<r>>]
         /\ info' = [info EXCEPT ![p] = IF r.ok THEN r.val ELSE @]
         /\ log' = [log EXCEPT ![p] =
                      IF r.ok THEN @ ELSE Append(@, FetchFailLog(branch[p], age[p][1].err, r.err))]
         /\ pc' = [pc EXCEPT ![p] = FetchArm(branch[p], r)]
    /\ UNCHANGED <<runs, clockVars>>
    /\ UNCHANGED <<xdg, fileAtStart, started, age, branch, output, fetched, reads, writes, stdout>>

\* main: the icon and the println! of the status line; println! panics when
\* standard output cannot be written (printed is then FALSE).
Render(p, printed) ==
    /\ pc[p] = "Render"
    /\ stdout' = [stdout EXCEPT ![p] = IF printed THEN Append(@, StatusLine(info[p][1])) ELSE @]
    /\ pc' = [pc EXCEPT ![p] = IF printed THEN "Done" ELSE "Panicked"]
    /\ UNCHANGED <<file, runs, clockVars, stored>>
    /\ UNCHANGED <<xdg, fileAtStart, started, age, branch, output, fetched, ret, info, reads, writes, log>>

Step(p) ==
    \/ \E x \in XdgValues : StartRun(p, x)
    \/ \E ok \in BOOLEAN : InitLog(p, ok)
    \/ GetPath(p)
    \/ CheckFreshness(p)
    \/ LoadCache(p)
    \/ \E o \in ToolOutputs : Fetch(p, o)
    \/ CreateFile(p)
    \/ \E written \in BOOLEAN : WriteFile(p, written)
    \/ \E printed \in BOOLEAN : Render(p, printed)

Next ==
    \/ \E d \in TickSteps : Tick(d)
    \/ \E p \in SeqProcs : Step(p)

Spec == Init /\ [][Next]_vars

(***************************************************************************)
(* Properties                                                              *)
(***************************************************************************)
Checked(p) == age[p] # <<>>
Elapsed(p) == age[p][1].val[1]
Returned(p) == ret[p] # <<>>
Invoked(p) == output[p] # <<>>
ToolOutput(p) == output[p][1]
\* pc values of the Fresh arm and of the fetching arms, after the freshness check
FreshPath == {"LoadCache", "Render", "Done", "Failed", "Panicked"}
FetchPath == {"Fetch", "Create", "Write", "Render", "Done", "Failed", "Panicked"}

\* C1: a regular cache file whose age in whole seconds was computed is
\* classified Fresh, and main loads the cache without running the tool,
\* exactly when elapsed <= 86400; it is classified Stale, and main fetches,
\* exactly when elapsed >= 86401.
C1_FreshIffWithinThreshold ==
    \A p \in Procs :
        (Checked(p) /\ age[p][1].ok) =>
            /\ (branch[p] = "Fresh") <=> (Elapsed(p) <= 86400)
            /\ (branch[p] = "Stale") <=> (Elapsed(p) >= 86401)
            /\ (Elapsed(p) <= 86400) => (pc[p] \in FreshPath /\ ~Invoked(p))
            /\ (Elapsed(p) >= 86401) => (pc[p] \in FetchPath /\ reads[p] = 0)
            /\ (Elapsed(p) >= 86401 /\ pc[p] # "Fetch") => Invoked(p)

\* A file of exactly 86400 whole seconds is being loaded from the cache.
C1_Witness ==
    \E p \in Procs :
        /\ Checked(p) /\ age[p][1].ok /\ Elapsed(p) = 86400
        /\ branch[p] = "Fresh" /\ pc[p] = "Done" /\ reads[p] = 1

\* A file of exactly 86401 whole seconds made main fetch.
C1_WitnessStale ==
    \E p \in Procs :
        /\ Checked(p) /\ age[p][1].ok /\ Elapsed(p) = 86401
        /\ branch[p] = "Stale" /\ pc[p] = "Done" /\ Invoked(p)

\* The freshness check has no age to give for the file f at time t.
NoAge(f, t) == f.stat # "file" \/ ~f.mtimeOk \/ f.mtime > t

\* C2: when the freshness check runs on a path that is missing, not a regular
\* file, without readable metadata or modification time, or modified in the
\* future, it returns an error, main takes the Absent arm and goes on to the
\* fresh fetch (it neither panics nor stops).
C2_NoAgeMeansFetch ==
    [][\A p \in Procs :
          (pc[p] = "CheckFreshness" /\ pc'[p] # "CheckFreshness" /\ NoAge(file, now)) =>
              /\ pc'[p] = "Fetch"
              /\ branch'[p] = "Absent"
              /\ age'[p] # <<>> /\ ~age'[p][1].ok /\ ~age'[p][1].panic]_vars

\* A run whose cache file is modified in the future has gone on to run the tool.
C2_Witness ==
    \E p \in Procs :
        /\ Checked(p) /\ age[p][1].err = <<"Failed to get elapsed time">>
        /\ branch[p] = "Absent" /\ Invoked(p)

\* C3: in a run classified Fresh in which reading or decoding the cache file
\* fails, the run is Failed, the tool was not invoked, the cache file was not
\* written (it is as the run found it) and nothing was printed.
C3_FreshLoadFailureIsFinal ==
    \A p \in Procs :
        (branch[p] = "Fresh" /\ pc[p] # "LoadCache" /\ ~get_buffered_internet_info(xdg[p], fileAtStart[p]).ok) =>
            /\ pc[p] = "Failed"
            /\ Returned(p) /\ ~ret[p][1].ok
            /\ ~Invoked(p)
            /\ writes[p] = 0 /\ file = fileAtStart[p]
            /\ stdout[p] = <<>>

\* A Fresh cache file that does not decode has ended a run in Failed.
C3_Witness ==
    \E p \in Procs :
        /\ branch[p] = "Fresh" /\ pc[p] = "Failed"
        /\ fileAtStart[p].content = GarbageDoc /\ reads[p] = 1

\* C4: when the tool was spawned and exited with a non-success status,
\* get_new_internet_info has returned an error that carries the captured
\* standard error, and the cache file is as the run found it (no fs::write).
C4_ToolFailureLeavesCache ==
    \A p \in Procs :
        (Invoked(p) /\ ToolOutput(p).kind = "exit" /\ ~ToolOutput(p).success) =>
            /\ Returned(p) /\ ~ret[p][1].ok
            /\ ret[p][1].err = <<"Command failed", ToolOutput(p).stderr>>
            /\ pc[p] = "Failed"
            /\ writes[p] = 0
            /\ file = fileAtStart[p]

\* The tool failed although it printed a decodable measurement.
C4_Witness ==
    \E p \in Procs :
        /\ Invoked(p) /\ ToolOutput(p).kind = "exit" /\ ~ToolOutput(p).success
        /\ serde_json_from_str(ToolOutput(p).stdout).ok
        /\ pc[p] = "Failed" /\ fileAtStart[p].stat = "file"

\* C5: when the tool exited successfully with standard output that does not
\* decode into a Fast, the fetch has failed with the JSON decode error and the
\* cache file is as the run found it.
C5_UndecodableOutputLeavesCache ==
    \A p \in Procs :
        (Invoked(p) /\ ToolOutput(p).kind = "exit" /\ ToolOutput(p).success
                    /\ ~serde_json_from_str(ToolOutput(p).stdout).ok) =>
            /\ Returned(p) /\ ~ret[p][1].ok
            /\ ret[p][1].err[1] = "Failed to parse JSON"
            /\ pc[p] = "Failed"
            /\ fetched[p] = <<>> /\ info[p] = <<>>
            /\ writes[p] = 0
            /\ file = fileAtStart[p]

\* The tool printed an object without latency and the run failed.
C5_Witness ==
    \E p \in Procs :
        /\ Invoked(p) /\ ToolOutput(p).success
        /\ Keys(ToolOutput(p).stdout) = {"downloadSpeed"}
        /\ pc[p] = "Failed" /\ fileAtStart[p].stat = "file"

\* The fresh fetch of p has succeeded: the tool's info is main's info.
FetchSucceeded(p) == Invoked(p) /\ pc[p] \in {"Render", "Done"}

\* C6: after a successful fresh fetch the cache file was overwritten before
\* the status line is printed, and its content, decoded as the cache-hit path
\* decodes it, has the downloadSpeed and latency the tool returned, which are
\* the ones the run prints.
C6_CacheRoundTrip ==
    \A p \in Procs :
        FetchSucceeded(p) =>
            LET tool == serde_json_from_str(ToolOutput(p).stdout)
                back == toml_from_str(file.content) IN
              /\ tool.ok
              /\ writes[p] = 1 /\ file.stat = "file"
              /\ back.ok
              /\ back.val[1].downloadSpeed = tool.val[1].downloadSpeed
              /\ back.val[1].latency = tool.val[1].latency
              /\ info[p] = tool.val
              /\ stdout[p] \in {<<>>, <<StatusLine(tool.val[1])>>}
              /\ (pc[p] = "Done") => (stdout[p] # <<>>)

\* A measurement with the extreme u32 values was fetched, stored and printed.
C6_Witness ==
    \E p \in Procs :
        /\ FetchSucceeded(p) /\ pc[p] = "Done"
        /\ toml_from_str(file.content).ok
        /\ toml_from_str(file.content).val[1] = Fast(U32(0), U32Max)
        /\ fileAtStart[p].content # file.content

\* The cache file holds the encoding of the info p fetched.
Persisted(p) == file.stat = "file" /\ file.content = toml_to_string(fetched[p][1]).val[1]

\* C7: when the tool returned a valid Fast but the cache file could not be
\* written, get_new_internet_info has returned an error, main has no info and
\* the run is Failed without a status line.
C7_PersistFailureFailsFetch ==
    \A p \in Procs :
        (fetched[p] # <<>> /\ pc[p] \notin {"Create", "Write"} /\ ~Persisted(p)) =>
            /\ Returned(p) /\ ~ret[p][1].ok
            /\ ret[p][1].err[1] \in {"Failed to convert to TOML", "Failed to write buffered file"}
            /\ info[p] = <<>>
            /\ pc[p] = "Failed"
            /\ stdout[p] = <<>>

\* write_all failed after the file had been truncated.
C7_Witness ==
    \E p \in Procs :
        /\ fetched[p] # <<>> /\ pc[p] = "Failed" /\ writes[p] = 1
        /\ file.content = EmptyDoc /\ fileAtStart[p].content # EmptyDoc

\* C8: a run without XDG_CACHE_HOME never runs the tool and never reads or
\* writes the cache file (it does not even look at its age); once main has
\* looked for the path the run is Failed with the environment error logged.
C8_UnsetEnvFailsFirst ==
    \A p \in Procs :
        (xdg[p] = "unset") =>
            /\ ~Invoked(p) /\ reads[p] = 0 /\ writes[p] = 0 /\ ~Checked(p)
            /\ stdout[p] = <<>>
            /\ pc[p] \in {"Idle", "InitLog", "GetPath", "Failed", "Panicked"}
            /\ (pc[p] = "Failed") =>
                  log[p] = <<LogLine("ERROR", <<"Failed to get XDG_CACHE_HOME",
                                                "environment variable not found">>, <<>>)>>
            /\ (pc[p] \in {"Failed", "Panicked"}) => (file = fileAtStart[p])

\* A run without XDG_CACHE_HOME has failed while a stale cache file exists.
C8_Witness ==
    \E p \in Procs :
        /\ xdg[p] = "unset" /\ pc[p] = "Failed" /\ log[p] # <<>>
        /\ get_seconds_since_file_modified(file, now).ok
        /\ get_seconds_since_file_modified(file, now).val[1] > Threshold

\* C9: when the tool cannot be spawned, get_internet_info returns an error
\* that reaches main, which logs it and ends the run in Failed; the process
\* does not abort inside the fetch.
C9_SpawnErrorIsReturned ==
    \A p \in Procs :
        (Invoked(p) /\ ToolOutput(p).kind = "spawn_error") =>
            /\ pc[p] = "Failed"
            /\ Returned(p) /\ ~ret[p][1].ok
            /\ \E i \in 1..Len(log[p]) : log[p][i].level = "ERROR"

\* C10: a run that is Done has printed exactly one status line, that of the
\* info it loaded or fetched and stored; a run that is not Done has printed
\* nothing, and main only goes on to the status line with the info a
\* successful load or fetch returned.
C10_OneLineOrNone ==
    \A p \in Procs :
        /\ (pc[p] = "Done") => (Len(stdout[p]) = 1 /\ stdout[p][1] = StatusLine(info[p][1]))
        /\ (pc[p] # "Done") => (stdout[p] = <<>>)
        /\ (pc[p] \in {"Render", "Done"}) =>
              /\ Returned(p) /\ ret[p][1].ok /\ info[p] = ret[p][1].val
              /\ (branch[p] = "Fresh") => (reads[p] = 1 /\ ~Invoked(p) /\ writes[p] = 0)
              /\ (branch[p] # "Fresh") =>
                    (Len(output[p]) = 1 /\ writes[p] = 1 /\ Persisted(p) /\ reads[p] = 0)

\* A run on the Absent arm has fetched, stored and printed one line.
C10_Witness ==
    \E p \in Procs :
        /\ pc[p] = "Done" /\ branch[p] = "Absent" /\ Len(stdout[p]) = 1
        /\ fileAtStart[p].stat = "absent"

(***************************************************************************)
(* Presentation: the program started on a fresh, well-formed cache file    *)
(* holding any of a range of measurements around the band limits.          *)
(***************************************************************************)
LatencyInputs == {0, 1, 17, 49, 50, 51, 52, 120, 149, 150, 151, 152, 65535}
SpeedInputs == {0, 330}
PresentInfos ==
    { Fast(U32(d), U32(l)) : d \in SpeedInputs, l \in LatencyInputs }
    \cup { Fast(U32(330), U32Max), Fast(U32Max, [hi |-> 1, lo |-> 0]) }
PresentFiles ==
    { File("file", TRUE, StartTime, TRUE, TRUE, toml_to_string(m).val[1]) : m \in PresentInfos }

InitPresent ==
    /\ now = StartTime
    /\ nticks = 0
    /\ file \in PresentFiles
    /\ runs = 0
    /\ pc = [p \in Procs |-> "Idle"]
    /\ xdg = [p \in Procs |-> "unset"]
    /\ fileAtStart = [p \in Procs |-> file]
    /\ started = [p \in Procs |-> StartTime]
    /\ age = [p \in Procs |-> <<>>]
    /\ branch = [p \in Procs |-> "None"]
    /\ output = [p \in Procs |-> <<>>]
    /\ fetched = [p \in Procs |-> <<>>]
    /\ ret = [p \in Procs |-> <<>>]
    /\ info = [p \in Procs |-> <<>>]
    /\ reads = [p \in Procs |-> 0]
    /\ writes = [p \in Procs |-> 0]
    /\ log = [p \in Procs |-> <<>>]
    /\ stdout = [p \in Procs |-> <<>>]
    /\ stored = <<>>

SpecPresent == InitPresent /\ [][Next]_vars

\* The measurement a finished run got: from the cache file it found, or from the tool.
Source(p) ==
    IF branch[p] = "Fresh" THEN toml_from_str(fileAtStart[p].content).val[1]
    ELSE serde_json_from_str(ToolOutput(p).stdout).val[1]

\* C11: the line a run prints has exactly one glyph, chosen by latency alone:
\* good for 0..50, warning for 51..150, bad from 151 on; and the latency and
\* downloadSpeed on the line read back as those of the measurement the run
\* loaded or fetched.
C11_GlyphBands ==
    \A p \in Procs :
        (pc[p] = "Done") =>
            LET lat == Source(p).latency
                line == stdout[p][1] IN
              /\ (line.icon = "F#3cb703") <=> (lat.hi = 0 /\ lat.lo >= 0 /\ lat.lo <= 50)
              /\ (line.icon = "F#f9dd04") <=> (lat.hi = 0 /\ lat.lo >= 51 /\ lat.lo <= 150)
              /\ (line.icon = "F#d60606") <=> (lat.hi > 0 \/ lat.lo >= 151)
              /\ ~LeadingZero([digits |-> line.latency])
              /\ ~LeadingZero([digits |-> line.downloadSpeed])
              /\ ~FromDigits(line.latency).over
              /\ ~FromDigits(line.downloadSpeed).over
              /\ Parsed([digits |-> line.latency]) = lat
              /\ Parsed([digits |-> line.downloadSpeed]) = Source(p).downloadSpeed

\* A cached latency of exactly 150 was printed with the warning glyph.
C11_Witness ==
    \E p \in Procs :
        /\ pc[p] = "Done" /\ branch[p] = "Fresh"
        /\ info[p][1].latency = U32(150)
        /\ stdout[p][1].icon = "F#f9dd04"

(***************************************************************************)
(* Sequences of runs                                                       *)
(***************************************************************************)
\* The run p is in started after the fetch whose write the cache file holds.
LaterRun(p) == stored # <<>> /\ pc[p] # "Idle" /\ stored[1].run < runs
\* At most 86400 seconds have passed since that write.
WithinThreshold == now - stored[1].at <= TicksPerSec * 86400
StoredLine == StatusLine(stored[1].info)

\* C12 as stated: a later run that started (and ended) at most 86400 seconds
\* after the write of a successful fetch has not invoked the tool and has
\* printed the measurement that fetch stored.
C12_LaterRunPrintsStored ==
    \A p \in Procs :
        (LaterRun(p) /\ WithinThreshold /\ pc[p] \in Terminal /\ xdg[p] \notin {"unset", "notunicode"}) =>
            /\ ~Invoked(p)
            /\ stdout[p] = <<StoredLine>>

\* C12 as amended: a later run whose freshness check takes place at most 86400
\* seconds after the write of a successful fetch (the modification time being
\* readable) takes the Fresh arm, and a later run on the Fresh arm does not
\* invoke the tool, leaves the file as written, prints nothing but the
\* measurement that fetch stored, and prints it when it ends Done.
C12_LaterRunUsesStored ==
    \A p \in Procs :
        LaterRun(p) =>
            /\ (WithinThreshold /\ file.mtimeOk) => (branch[p] \in {"None", "Fresh"} /\ ~Invoked(p))
            /\ (branch[p] = "Fresh") =>
                  /\ ~Invoked(p) /\ writes[p] = 0
                  /\ file.mtime = stored[1].at
                  /\ toml_from_str(file.content) = Ok(stored[1].info)
                  /\ stdout[p] \in {<<>>, <<StoredLine>>}
                  /\ (pc[p] = "Done") => (stdout[p] = <<StoredLine>>)

\* A run exactly 86400 seconds after the fetch printed the stored measurement.
C12_Witness ==
    \E p \in Procs :
        /\ LaterRun(p) /\ now - stored[1].at = TicksPerSec * 86400
        /\ pc[p] = "Done" /\ branch[p] = "Fresh" /\ Elapsed(p) = 86400
        /\ stdout[p] = <<StoredLine>>

\* C13: in one run the tool is invoked at most once and fs::write is called
\* on the cache file at most once, whatever failed; a run that failed after
\* its fetch or its write has stopped.
C13_NoRetries ==
    \A p \in Procs :
        /\ Len(output[p]) <= 1
        /\ writes[p] <= 1
        /\ reads[p] <= 1
        /\ (writes[p] = 1) => (Len(output[p]) = 1 /\ reads[p] = 0)
        /\ (Returned(p) /\ ~ret[p][1].ok) => (pc[p] = "Failed")

\* A stale run whose write failed after its one fetch has stopped.
C13_Witness ==
    \E p \in Procs :
        /\ branch[p] = "Stale" /\ pc[p] = "Failed"
        /\ Len(output[p]) = 1 /\ writes[p] = 1

(***************************************************************************)
(* Termination.  main has no loop: each step moves pc forward.             *)
(***************************************************************************)
\* How far main has come.
Rank(l) ==
    CASE l = "Idle" -> 0
      [] l = "InitLog" -> 1
      [] l = "GetPath" -> 2
      [] l = "CheckFreshness" -> 3
      [] l \in {"LoadCache", "Fetch"} -> 4
      [] l = "Create" -> 5
      [] l = "Write" -> 6
      [] l = "Render" -> 7
      [] OTHER -> 8

\* Within a run pc only moves forward, so a run takes at most eight steps.
C14_NoLoop ==
    [][\A p \in Procs :
          (pc'[p] # pc[p] /\ pc[p] \notin Terminal \cup {"Idle"}) => Rank(pc'[p]) > Rank(pc[p])]_vars

\* C14: a run that has ended is in exactly one of the two terminal states:
\* Done, with its status line printed, or Failed, with the error reported in
\* the log and nothing printed.
C14_DoneOrFailed ==
    \A p \in Procs :
        (pc[p] \in Terminal) =>
            \/ pc[p] = "Done" /\ Len(stdout[p]) = 1
            \/ /\ pc[p] = "Failed" /\ stdout[p] = <<>>
               /\ \E i \in 1..Len(log[p]) : log[p][i].level = "ERROR"

(***************************************************************************)
(* Two concurrent runs.  Nothing in main.rs locks the cache file, so the   *)
(* steps of two processes interleave freely, the two system calls of       *)
(* fs::write included.                                                     *)
(***************************************************************************)
\* The cache files two concurrent runs start from: none, one just written,
\* one that is out of date.
ConcFiles ==
    { File("absent", TRUE, 0, FALSE, TRUE, EmptyDoc),
      File("file", TRUE, StartTime, TRUE, TRUE, CachedDoc),
      File("file", TRUE, StartTime - FirstStaleAge, TRUE, TRUE, CachedDoc) }

InitConc ==
    /\ now = StartTime
    /\ nticks = 0
    /\ file \in ConcFiles
    /\ runs = 0
    /\ pc = [p \in Procs |-> "Idle"]
    /\ xdg = [p \in Procs |-> "unset"]
    /\ fileAtStart = [p \in Procs |-> file]
    /\ started = [p \in Procs |-> StartTime]
    /\ age = [p \in Procs |-> <<>>]
    /\ branch = [p \in Procs |-> "None"]
    /\ output = [p \in Procs |-> <<>>]
    /\ fetched = [p \in Procs |-> <<>>]
    /\ ret = [p \in Procs |-> <<>>]
    /\ info = [p \in Procs |-> <<>>]
    /\ reads = [p \in Procs |-> 0]
    /\ writes = [p \in Procs |-> 0]
    /\ log = [p \in Procs |-> <<>>]
    /\ stdout = [p \in Procs |-> <<>>]
    /\ stored = <<>>

\* What the tool gives the concurrent runs: two different Measurements and a
\* failure.
ConcOutputs ==
    { Exit(FALSE, EmptyDoc, "network unreachable"),
      Exit(TRUE, Doc(<<Member("downloadSpeed", IntTok(U32(100))), Member("latency", IntTok(U32(120)))>>), ""),
      Exit(TRUE, Doc(<<Member("downloadSpeed", IntTok(U32(0))), Member("latency", IntTok(U32Max)),
                       Member("userIp", Num("string", FALSE, <<>>))>>), "warning") }

\* Each of the two processes is started once, with the same environment.
StepConc(p) ==
    \/ pc[p] = "Idle" /\ StartRun(p, "/home/user/.cache")
    \/ \E ok \in BOOLEAN : InitLog(p, ok)
    \/ GetPath(p)
    \/ CheckFreshness(p)
    \/ LoadCache(p)
    \/ \E o \in ConcOutputs : Fetch(p, o)
    \/ CreateFile(p)
    \/ \E written \in BOOLEAN : WriteFile(p, written)
    \/ \E printed \in BOOLEAN : Render(p, printed)

\* Concurrent runs are moments apart: the clock moves by single ticks.
NextConc ==
    \/ Tick(1)
    \/ \E p \in Procs : StepConc(p)

SpecConc == InitConc /\ [][NextConc]_vars

\* Process q is between the File::create and the write_all of its fs::write,
\* and no write has completed since the file was last truncated.
Overwriting(q) == pc[q] = "Write" /\ stored = <<>>

\* C15: no lock keeps a run away from the cache file while another run is
\* overwriting it.  A run that classified the file Fresh and reads it while
\* the other run is between the two system calls of fs::write sees the
\* truncated file, which is neither what the file held before nor the encoding
\* the writer is about to store and decodes to no Measurement, and the reader
\* ends in Failed.
C15_ReadDuringOverwriteFails ==
    [][\A p \in Procs : \A q \in Procs \ {p} :
          (pc[p] = "LoadCache" /\ pc'[p] # "LoadCache" /\ Overwriting(q)) =>
              /\ file.content = EmptyDoc
              /\ file.content # toml_to_string(fetched[q][1]).val[1]
              /\ ~toml_from_str(file.content).ok
              /\ ~ret'[p][1].ok
              /\ pc'[p] = "Failed"
              /\ stdout'[p] = <<>>]_vars

\* A run found a complete cache file at its freshness check, classified it
\* Fresh, read it after the other run had truncated it and failed to decode
\* it, while the other run has still to write its Measurement.
C15_Witness ==
    \E p \in Procs : \E q \in Procs \ {p} :
        /\ branch[p] = "Fresh" /\ pc[p] = "Failed" /\ reads[p] = 1
        /\ Overwriting(q)
        /\ fileAtStart[p].content = CachedDoc
        /\ file.content = EmptyDoc
        /\ \E i \in 1..Len(log[p]) : log[p][i].msg[1] = "Failed to parse TOML"

\* Two fetching runs overwrite the file in either order: the file ends up
\* holding the Measurement of the run that wrote last, whichever fetched last.
C15_WitnessLastWriterWins ==
    \E p \in Procs : \E q \in Procs \ {p} :
        /\ pc[p] = "Done" /\ pc[q] = "Done"
        /\ writes[p] = 1 /\ writes[q] = 1
        /\ info[p] # info[q]
        /\ toml_from_str(file.content).val = info[q]

(***************************************************************************)
(* What is printed and what is cached                                      *)
(***************************************************************************)
\* C16: in a sequence of runs with no concurrent writer, when a run is Done
\* the cache file decodes, and the Measurement the run printed is the one the
\* file decodes to, whether the run loaded the cache or fetched and stored.
C16_PrintedIsCached ==
    \A p \in SeqProcs :
        (pc[p] = "Done") =>
            /\ file.stat = "file"
            /\ toml_from_str(file.content).ok
            /\ info[p] = toml_from_str(file.content).val
            /\ stdout[p] = <<StatusLine(toml_from_str(file.content).val[1])>>

\* A run that fetched and stored a Measurement other than the one cached
\* before is Done.
C16_Witness ==
    \E p \in SeqProcs :
        /\ pc[p] = "Done" /\ branch[p] \in {"Stale", "Absent"}
        /\ writes[p] = 1 /\ Len(output[p]) = 1
        /\ file.content # CachedDoc
        /\ toml_from_str(file.content).val = info[p]

\* A run on the cache-hit path is Done.
C16_WitnessCacheHit ==
    \E p \in SeqProcs :
        /\ pc[p] = "Done" /\ branch[p] = "Fresh" /\ reads[p] = 1 /\ writes[p] = 0
        /\ toml_from_str(file.content).val = info[p]

(***************************************************************************)
(* Runs one after the other on a cache file that a fetch has just written. *)
(* Each run is a process of its own; a run is started only when no other   *)
(* is under way.                                                           *)
(***************************************************************************)
\* The cache file right after a successful fetch stored CachedInfo.
HitFile == File("file", TRUE, StartTime, TRUE, TRUE, CachedDoc)

InitHits ==
    /\ now = StartTime
    /\ nticks = 0
    /\ file = HitFile
    /\ runs = 0
    /\ pc = [p \in Procs |-> "Idle"]
    /\ xdg = [p \in Procs |-> "unset"]
    /\ fileAtStart = [p \in Procs |-> file]
    /\ started = [p \in Procs |-> StartTime]
    /\ age = [p \in Procs |-> <<>>]
    /\ branch = [p \in Procs |-> "None"]
    /\ output = [p \in Procs |-> <<>>]
    /\ fetched = [p \in Procs |-> <<>>]
    /\ ret = [p \in Procs |-> <<>>]
    /\ info = [p \in Procs |-> <<>>]
    /\ reads = [p \in Procs |-> 0]
    /\ writes = [p \in Procs |-> 0]
    /\ log = [p \in Procs |-> <<>>]
    /\ stdout = [p \in Procs |-> <<>>]
    /\ stored = <<Stored(CachedInfo, 0, StartTime)>>

StepSeq(p) ==
    /\ \A q \in Procs \ {p} : pc[q] \in {"Idle"} \cup Terminal
    /\ StepConc(p)

NextHits ==
    \/ \E d \in TickSteps : Tick(d)
    \/ \E p \in Procs : StepSeq(p)

SpecHits == InitHits /\ [][NextHits]_vars

\* Whole seconds between the write of the stored fetch and now.
SinceStored == (now - stored[1].at) \div TicksPerSec

\* C17 as stated: a run that starts more than 86400 seconds after the write
\* of the last successful fetch, and gets as far as the freshness check, takes
\* a fetching arm.
C17_StartsAfterThresholdFetches ==
    \A p \in Procs :
        (stored # <<>> /\ pc[p] # "Idle" /\ Checked(p)
           /\ started[p] - stored[1].at > TicksPerSec * 86400) =>
            branch[p] \in {"Stale", "Absent"}

\* C17 as amended: the steps of a run on the cache-hit path leave the cache
\* file, content and modification time, as it is; while the file holds what
\* a successful fetch wrote, its modification time is the time of that write;
\* and a freshness check on it gives Fresh exactly when the whole seconds
\* since that write are at most 86400, and leads to a fetch exactly when they
\* are 86401 or more, whatever cache-hit runs came before.
C17_CacheHitKeepsAge ==
    [][\A p \in Procs :
          /\ (branch[p] = "Fresh" /\ pc[p] \in {"LoadCache", "Render"}) => file' = file
          /\ (stored # <<>>) =>
                /\ file.mtime = stored[1].at
                /\ file.content = toml_to_string(stored[1].info).val[1]
          /\ (stored # <<>> /\ file.mtimeOk /\ pc[p] = "CheckFreshness" /\ pc'[p] # pc[p]) =>
                /\ (branch'[p] = "Fresh" /\ pc'[p] = "LoadCache") <=> (SinceStored <= 86400)
                /\ (branch'[p] = "Stale" /\ pc'[p] = "Fetch") <=> (SinceStored >= 86401)
                /\ age'[p][1].val[1] = SinceStored]_vars

\* After a cache-hit run that is Done, a run checking 86401 seconds or more
\* after the write of the stored fetch finds the file out of date and fetches.
C17_Witness ==
    \E p \in Procs : \E q \in Procs \ {p} :
        /\ pc[p] = "Done" /\ branch[p] = "Fresh" /\ reads[p] = 1
        /\ stored # <<>> /\ stored[1].run = 0 /\ file = HitFile
        /\ started[q] > started[p]
        /\ branch[q] = "Stale" /\ pc[q] = "Fetch" /\ SinceStored >= 86401

\* A run started more than 86400 but less than 86401 seconds after the write
\* is still a cache hit.
C17_WitnessHalfSecond ==
    \E p \in Procs :
        /\ stored # <<>> /\ stored[1].run = 0
        /\ started[p] - stored[1].at > TicksPerSec * 86400
        /\ branch[p] = "Fresh" /\ pc[p] = "Done"

(***************************************************************************)
(* A cache file that cannot be decoded                                     *)
(***************************************************************************)
\* A regular, readable file whose modification time can be read and whose
\* content get_buffered_internet_info cannot turn into a Fast.
Undecodable(f) ==
    /\ f.stat = "file" /\ f.readable /\ f.mtimeOk
    /\ ~get_buffered_internet_info("/home/user/.cache", f).ok

\* C18 as stated, runs ended by a panic left aside: a run that started while
\* the age of an undecodable cache file, in whole seconds, was at most 86400
\* has, once it is over, failed without invoking the tool and without
\* modifying the file.
C18_StartedFreshAlwaysFails ==
    \A p \in SeqProcs :
        (Undecodable(fileAtStart[p]) /\ pc[p] \in {"Done", "Failed"}
           /\ started[p] - fileAtStart[p].mtime >= 0
           /\ (started[p] - fileAtStart[p].mtime) \div TicksPerSec <= 86400) =>
            /\ pc[p] = "Failed"
            /\ ~Invoked(p)
            /\ file = fileAtStart[p]

\* C18 as amended: in a sequence of runs on an undecodable cache file, a run
\* whose freshness check finds the age, in whole seconds, at most 86400 goes on
\* to fail without invoking the tool, without writing and without printing,
\* and leaves the file as it found it, so that the next run finds the same
\* file; a run whose check finds the age 86401 or more takes the Stale arm and
\* fetches; and a run that changed the file is one whose check found the age
\* 86401 or more.
C18_UndecodableFreshIsSticky ==
    \A p \in SeqProcs :
        (pc[p] # "Idle" /\ Undecodable(fileAtStart[p])) =>
            /\ (Checked(p) /\ age[p][1].ok /\ Elapsed(p) <= 86400) =>
                  /\ branch[p] = "Fresh" /\ pc[p] \in {"LoadCache", "Failed"}
                  /\ ~Invoked(p) /\ writes[p] = 0 /\ stdout[p] = <<>>
                  /\ file = fileAtStart[p]
                  /\ (pc[p] = "Failed") =>
                        (Returned(p) /\ ~ret[p][1].ok /\ log[p][Len(log[p])].level = "ERROR")
            /\ (Checked(p) /\ age[p][1].ok /\ Elapsed(p) >= 86401) =>
                  (branch[p] = "Stale" /\ pc[p] \in FetchPath)
            /\ (file # fileAtStart[p]) =>
                  (Checked(p) /\ age[p][1].ok /\ Elapsed(p) >= 86401 /\ writes[p] = 1)

\* The second of two runs on the same undecodable file, both within 86400
\* whole seconds of its modification time, has failed like the first: no
\* clock tick, no tool, no write, the file as it was.
C18_Witness ==
    \E p \in SeqProcs :
        /\ runs = 2 /\ nticks = 0
        /\ Undecodable(fileAtStart[p]) /\ fileAtStart[p].content = MissingLatencyDoc
        /\ branch[p] = "Fresh" /\ Elapsed(p) = 86400 /\ pc[p] = "Failed"
        /\ reads[p] = 1 /\ ~Invoked(p) /\ file = fileAtStart[p]

\* A run on the undecodable file whose check found it 86401 seconds old has
\* replaced it.
C18_WitnessReplaced ==
    \E p \in SeqProcs :
        /\ Undecodable(fileAtStart[p]) /\ fileAtStart[p].content = GarbageDoc
        /\ branch[p] = "Stale" /\ Elapsed(p) = 86401 /\ pc[p] = "Done"
        /\ toml_from_str(file.content).ok

(***************************************************************************)
(* A fetch that fails                                                      *)
(***************************************************************************)
\* A run that took the Stale or the Absent arm is over without its cache
\* write having completed: get_new_internet_info did not return Ok.
FetchFailed(p) ==
    /\ branch[p] \in {"Stale", "Absent"} /\ pc[p] \in {"Failed", "Panicked"}
    /\ ~(Returned(p) /\ ret[p][1].ok)

\* C19: a run that took the Stale or the Absent arm and failed, its cache
\* write not having completed, leaves the cache file exactly as it found it.
C19_FailedFetchLeavesCache ==
    \A p \in SeqProcs :
        FetchFailed(p) =>
            file = fileAtStart[p]

\* What does hold: a fetching run that failed without File::create having
\* succeeded left the file as it found it, and a failed run that changed the
\* file left it empty with a new modification time.
C19_FailureBeforeCreateLeavesCache ==
    \A p \in SeqProcs :
        FetchFailed(p) =>
            \/ file = fileAtStart[p]
            \/ /\ writes[p] = 1 /\ fetched[p] # <<>>
               /\ file.stat = "file" /\ file.content = EmptyDoc /\ file.mtime >= started[p]

\* The run after a fetch whose write_all failed: the truncated file is new,
\* so the run classified it Fresh, did not invoke the tool and failed to
\* decode the empty file.
C19_NextRunDoesNotFetch ==
    \E p \in SeqProcs :
        /\ runs = 2 /\ file.content = EmptyDoc /\ file.mtime < started[p]
        /\ branch[p] = "Fresh" /\ pc[p] = "Failed" /\ ~Invoked(p)

====
